---- MODULE Spec2Model ----
(***************************************************************************)
(* State-machine model of snowballer.py: a linear pipeline that walks the  *)
(* root folder, reads every retained file's modification time, keeps the   *)
(* files modified inside the lookback window, reads their sizes, bins the  *)
(* sizes by month offset and saves the histogram as snowball.png.          *)
(*                                                                         *)
(* Representation of numbers.  Python floats are modelled by exact         *)
(* arithmetic on integers:                                                 *)
(*   - an instant is a count of ticks, TicksPerSec ticks to the second, so *)
(*     that the capture time ts may fall between two whole seconds while   *)
(*     the int64 modification times are whole seconds;                     *)
(*   - a month offset x is the integer x * MonthTicks, i.e. a rational     *)
(*     with the fixed denominator MonthTicks;                              *)
(*   - a size in MB is the integer (MB * 10^6), i.e. a fixed-point number  *)
(*     with six decimals.                                                  *)
(* Rounding of the floating-point operations is not modelled.              *)
(***************************************************************************)
EXTENDS Integers, Sequences, FiniteSets, TLC

\* ------------------------------------------------------------------ bounds
MaxFiles == 3          \* at most this many file entries under the root
TicksPerSec == 2       \* resolution of the clock relative to one second
NowSec == 500000000    \* the whole second in which the run captures ts

\* ------------------------------------------------------- program constants
nmonths == 24                                  \* line 30
sec2month_inv == (60*60*24*7*3042) \div 100    \* 1/sec2month, line 58
PathLimit == 256                               \* line 40

\* a size in MB is held as its numerator over MBDen
MBDen == 10 * 1000000

\* 30.42 days in seconds: the average month of the documentation
AvgMonthSec == (60*60*24*3042) \div 100

MonthTicks == sec2month_inv * TicksPerSec

\* ------------------------------------------------------------ input domains
PathLens == {PathLimit - 2, PathLimit - 1, PathLimit}
\* sizes in bytes
SizeChoices == {10 * 1000000, 20 * 1000000, 30 * 1000000}
\* modification times in whole seconds: the two seconds around the start of
\* the window of a run whose ts is NowSec (+ a fraction), the seconds five
\* months and one month back, and the two seconds around ts
MtimeChoices ==
  { NowSec - nmonths * sec2month_inv, NowSec - nmonths * sec2month_inv + 1,
    NowSec - 5 * sec2month_inv, NowSec - sec2month_inv,
    NowSec, NowSec + 1 }
TsChoices == { NowSec * TicksPerSec, NowSec * TicksPerSec + 1 }

VARIABLES
  rootOK,     \* the root exists and is a readable directory
  nfiles,     \* number of file entries under the root
  todo,       \* entries os.walk has still to yield: <<id, len(path)+len(name)>>
  fns,        \* line 36: retained paths (a path is modelled by the file's id)
  badnum,     \* line 37: skip counter
  mtimes,     \* line 53: int64 modification times, aligned with fns
  ts,         \* line 56 (ticks); 0 before it is captured
  start,      \* line 59 (ticks)
  end,        \* line 60 (ticks)
  ct,         \* line 62: boolean mask aligned with fns
  fsize,      \* bytes of each file as os.path.getsize returned them; 0 = not read
  probed,     \* np.vectorize's type-probing call of getsize has been made
  sizes_MB,   \* line 68: aligned with fns[ct]
  n,          \* line 77: the nmonths bucket totals
  image,      \* snowball.png: "before" = as the run found it (maybe absent)
  error,      \* the exception that ended the run, "" if none
  pc          \* position of the script

vars == <<rootOK, nfiles, todo, fns, badnum, mtimes, ts, start, end,
          ct, fsize, probed, sizes_MB, n, image, error, pc>>

\* ------------------------------------------------------------------ helpers
RECURSIVE SumSeq(_)
SumSeq(s) == IF s = <<>> THEN 0 ELSE Head(s) + SumSeq(Tail(s))

\* faulty variant: the limit one character too low
Retained_Low(len) == len < PathLimit - 1

\* line 40: the test that admits a file entry to fns
Retained(len) == len < PathLimit

\* faulty variant: the window closed at both ends
InRange_Closed(m, s, e) == (m * TicksPerSec >= s) /\ (m * TicksPerSec <= e)

\* line 62: one element of (mtimes > start) & (mtimes < end); m is in whole
\* seconds, s and e are in ticks
InRange(m, s, e) == (m * TicksPerSec > s) /\ (m * TicksPerSec < e)

\* boolean-mask indexing a[mask]: the indices where mask is TRUE, ascending
RECURSIVE MaskIdx(_, _)
MaskIdx(mask, i) ==
  IF i > Len(mask) THEN <<>>
  ELSE IF mask[i] THEN <<i>> \o MaskIdx(mask, i + 1)
  ELSE MaskIdx(mask, i + 1)

\* line 68: fns[ct]
Sel == [k \in 1..Len(MaskIdx(ct, 1)) |-> fns[MaskIdx(ct, 1)[k]]]

\* line 68: bytes * 1e-6.  A size in MB is held as its numerator over MBDen,
\* so b bytes = b/10^6 MB has the numerator b * MBDen / 10^6.
ToMB(bytes) == bytes * (MBDen \div 1000000)

\* line 72: (mtime - ts)*sec2month, held as its numerator over MonthTicks
ToMonths(ticks, t) == ticks - t

\* numpy.histogram with an integer bin count and a range (called by ax.hist,
\* line 77): bins + 1 equally spaced edges first..last
BinEdge(i, bins, first, last) == first + i * ((last - first) \div bins)

\* values outside [first, last] are discarded
Keep(x, first, last) == x >= first /\ x <= last

\* faulty variant: bins closed on the right, (edge(i), edge(i+1)], the first closed
BinOf_RightClosed(x, bins, first, last) ==
  CHOOSE i \in 0..(bins - 1) :
    /\ x <= BinEdge(i + 1, bins, first, last)
    /\ \/ BinEdge(i, bins, first, last) < x
       \/ i = 0 /\ x = BinEdge(0, bins, first, last)

\* every bin is half-open [edge(i), edge(i+1)) but the last, which is closed
BinOf(x, bins, first, last) ==
  CHOOSE i \in 0..(bins - 1) :
    /\ BinEdge(i, bins, first, last) <= x
    /\ \/ x < BinEdge(i + 1, bins, first, last)
       \/ i = bins - 1 /\ x = BinEdge(bins, bins, first, last)

RECURSIVE WeightIn(_, _, _, _, _, _)
WeightIn(b, xs, ws, bins, first, last) ==
  IF xs = <<>> THEN 0
  ELSE (IF Keep(Head(xs), first, last) /\ BinOf(Head(xs), bins, first, last) = b
        THEN Head(ws) ELSE 0)
       + WeightIn(b, Tail(xs), Tail(ws), bins, first, last)

\* the weighted counts: n[b] is the total of bin b - 1
Hist(xs, ws, bins, first, last) ==
  [b \in 1..bins |-> WeightIn(b - 1, xs, ws, bins, first, last)]

\* -------------------------------------------------------------------- Init
Init ==
  /\ rootOK \in BOOLEAN
  /\ nfiles \in (IF rootOK THEN 0..MaxFiles ELSE {0})
  /\ \E lens \in [1..nfiles -> PathLens] :
       todo = [i \in 1..nfiles |-> <<i, lens[i]>>]
  /\ fns = <<>>
  /\ badnum = 0
  /\ mtimes = <<>>
  /\ ts = 0 /\ start = 0 /\ end = 0
  /\ ct = <<>>
  /\ fsize = [f \in 1..nfiles |-> 0]
  /\ probed = FALSE
  /\ sizes_MB = <<>>
  /\ n = <<>>
  /\ image = "before"
  /\ error = ""
  /\ pc = "walk"

\* ------------------------------------------------------------------ actions
\* faulty variant: a skipped entry is not counted
WalkFile_NoCount ==
  /\ pc = "walk"
  /\ todo # <<>>
  /\ IF Retained(Head(todo)[2])
     THEN fns' = Append(fns, Head(todo)[1]) /\ badnum' = badnum
     ELSE badnum' = badnum /\ fns' = fns
  /\ todo' = Tail(todo)
  /\ UNCHANGED <<rootOK, nfiles, mtimes, ts, start, end, ct, fsize,
                 probed, sizes_MB, n, image, error, pc>>

\* lines 38-43: one iteration of the inner loop.  os.walk reports no error
\* for a root it cannot list (onerror is None): it simply yields nothing.
WalkFile ==
  /\ pc = "walk"
  /\ todo # <<>>
  /\ IF Retained(Head(todo)[2])
     THEN fns' = Append(fns, Head(todo)[1]) /\ badnum' = badnum
     ELSE badnum' = badnum + 1 /\ fns' = fns
  /\ todo' = Tail(todo)
  /\ UNCHANGED <<rootOK, nfiles, mtimes, ts, start, end, ct, fsize,
                 probed, sizes_MB, n, image, error, pc>>

\* lines 44-52: the walk is exhausted
WalkDone ==
  /\ pc = "walk"
  /\ todo = <<>>
  /\ pc' = "mtimes"
  /\ UNCHANGED <<rootOK, nfiles, todo, fns, badnum, mtimes, ts,
                 start, end, ct, fsize, probed, sizes_MB, n, image, error>>

\* line 53: os.path.getmtime of the next element of fns
GetMtime ==
  /\ pc = "mtimes"
  /\ Len(mtimes) < Len(fns)
  /\ \E m \in MtimeChoices : mtimes' = Append(mtimes, m)
  /\ UNCHANGED <<rootOK, nfiles, todo, fns, badnum, ts, start, end,
                 ct, fsize, probed, sizes_MB, n, image, error, pc>>

\* line 53: the file was removed after the walk listed it: os.path.getmtime
\* raises and nothing catches the exception
GetMtimeRaise ==
  /\ pc = "mtimes"
  /\ Len(mtimes) < Len(fns)
  /\ error' = "FileNotFoundError"
  /\ pc' = "failed"
  /\ UNCHANGED <<rootOK, nfiles, todo, fns, badnum, mtimes, ts,
                 start, end, ct, fsize, probed, sizes_MB, n, image>>

\* faulty variant: the figure is saved as soon as the mask is known, before the
\* sizes are read
RangeFilter_SaveEarly ==
  /\ pc = "mtimes"
  /\ Len(mtimes) = Len(fns)
  /\ \E t \in TsChoices :
       /\ ts' = t
       /\ start' = t - nmonths * MonthTicks
       /\ end' = t
       /\ ct' = [i \in 1..Len(fns) |->
                   InRange(mtimes[i], t - nmonths * MonthTicks, t)]
  /\ pc' = "sizes"
  /\ image' = "new"
  /\ UNCHANGED <<rootOK, nfiles, todo, fns, badnum, mtimes, fsize,
                 probed, sizes_MB, n, error>>

\* lines 56-63: capture the time, compute the window and the mask
RangeFilter ==
  /\ pc = "mtimes"
  /\ Len(mtimes) = Len(fns)
  /\ \E t \in TsChoices :
       /\ ts' = t
       /\ start' = t - nmonths * MonthTicks
       /\ end' = t
       /\ ct' = [i \in 1..Len(fns) |->
                   InRange(mtimes[i], t - nmonths * MonthTicks, t)]
  /\ pc' = "sizes"
  /\ UNCHANGED <<rootOK, nfiles, todo, fns, badnum, mtimes, fsize,
                 probed, sizes_MB, n, image, error>>

\* lines 67-68: np.vectorize without otypes refuses an input of size 0
GetSizeEmpty ==
  /\ pc = "sizes"
  /\ Sel = <<>>
  /\ error' = "ValueError"
  /\ pc' = "failed"
  /\ UNCHANGED <<rootOK, nfiles, todo, fns, badnum, mtimes, ts,
                 start, end, ct, fsize, probed, sizes_MB, n, image>>

\* lines 67-68: without otypes np.vectorize first calls getsize on the first
\* element to learn the output type and discards the value; the call raises
\* if the file has been removed in the meantime
GetSizeProbe ==
  /\ pc = "sizes"
  /\ Sel # <<>>
  /\ ~probed
  /\ \E present \in BOOLEAN :
       IF present
       THEN probed' = TRUE /\ error' = error /\ pc' = pc
       ELSE error' = "FileNotFoundError" /\ pc' = "failed" /\ probed' = probed
  /\ UNCHANGED <<rootOK, nfiles, todo, fns, badnum, mtimes, ts,
                 start, end, ct, fsize, sizes_MB, n, image>>

\* line 68: os.path.getsize of the next element of fns[ct], times 1e-6
GetSize ==
  /\ pc = "sizes"
  /\ probed
  /\ Len(sizes_MB) < Len(Sel)
  /\ \E b \in SizeChoices :
       /\ fsize' = [fsize EXCEPT ![Sel[Len(sizes_MB) + 1]] = b]
       /\ sizes_MB' = Append(sizes_MB, ToMB(b))
  /\ UNCHANGED <<rootOK, nfiles, todo, fns, badnum, mtimes, ts,
                 start, end, ct, probed, n, image, error, pc>>

\* line 68: the file was removed after its modification time was read:
\* os.path.getsize raises and nothing catches the exception
GetSizeRaise ==
  /\ pc = "sizes"
  /\ probed
  /\ Len(sizes_MB) < Len(Sel)
  /\ error' = "FileNotFoundError"
  /\ pc' = "failed"
  /\ UNCHANGED <<rootOK, nfiles, todo, fns, badnum, mtimes, ts,
                 start, end, ct, fsize, probed, sizes_MB, n, image>>

\* line 72: mtimes[ct] in month offsets
mtimes_mo ==
  [k \in 1..Len(MaskIdx(ct, 1)) |->
     ToMonths(mtimes[MaskIdx(ct, 1)[k]] * TicksPerSec, ts)]
\* faulty variant: the left end of the histogram range taken as nmonths months of
\* 30.42 days instead of the start of the window
start_mo_Narrow == -(nmonths * AvgMonthSec * TicksPerSec)
\* lines 73-74
start_mo == ToMonths(start, ts)
end_mo == ToMonths(end, ts)

\* lines 72-82: the weighted histogram
MakeHist ==
  /\ pc = "sizes"
  /\ probed
  /\ Len(sizes_MB) = Len(Sel)
  /\ n' = Hist(mtimes_mo, sizes_MB, nmonths, start_mo, end_mo)
  /\ pc' = "save"
  /\ UNCHANGED <<rootOK, nfiles, todo, fns, badnum, mtimes, ts,
                 start, end, ct, fsize, probed, sizes_MB, image, error>>

\* lines 83-86: write the image; the write fails if the working directory
\* does not accept it
SaveFig ==
  /\ pc = "save"
  /\ \E writable \in BOOLEAN :
       IF writable
       THEN image' = "new" /\ pc' = "done" /\ error' = error
       ELSE image' = image /\ pc' = "failed" /\ error' = "OSError"
  /\ UNCHANGED <<rootOK, nfiles, todo, fns, badnum, mtimes, ts,
                 start, end, ct, fsize, probed, sizes_MB, n>>

Next ==
  \/ WalkFile
  \/ WalkDone
  \/ GetMtime
  \/ GetMtimeRaise
  \/ RangeFilter
  \/ GetSizeEmpty
  \/ GetSizeProbe
  \/ GetSize
  \/ GetSizeRaise
  \/ MakeHist
  \/ SaveFig

Spec == Init /\ [][Next]_vars

TypeOK ==
  /\ pc \in {"walk", "mtimes", "sizes", "save", "done", "failed"}
  /\ Len(mtimes) <= Len(fns)
  /\ Len(fns) + badnum + Len(todo) = nfiles

\* ------------------------------------------------------------ claim helpers
\* ticks from the capture time to the modification time of fns[i]
Off(i) == mtimes[i] * TicksPerSec - ts
\* fns[i] was modified strictly inside the window
Strict(i) == mtimes[i] * TicksPerSec > start /\ mtimes[i] * TicksPerSec < end
\* bytes of the files fns[i], i in S, as the file system reported them
RECURSIVE SumBytes(_)
SumBytes(S) ==
  IF S = {} THEN 0
  ELSE LET i == CHOOSE x \in S : TRUE
       IN fsize[fns[i]] + SumBytes(S \ {i})
\* bucket b (1..nmonths) covers the month offsets [b-1-nmonths, b-nmonths),
\* the last bucket also its right edge 0
InBucket(i, b) ==
  /\ Off(i) >= (b - 1 - nmonths) * MonthTicks
  /\ \/ Off(i) < (b - nmonths) * MonthTicks
     \/ b = nmonths /\ Off(i) = 0
HistDone == n # <<>>
Filtered == pc \in {"sizes", "save", "done"} \/ (pc = "failed" /\ ts # 0)

\* C1: once the histogram is computed, the sum of the nmonths bucket totals
\* equals the sum of the sizes (in MB) of exactly the files with
\* start < mtime < end: no such file is dropped and none is counted twice.
C1_SumPreserved ==
  HistDone =>
    SumSeq(n) = (MBDen \div 1000000) * SumBytes({i \in 1..Len(fns) : Strict(i)})
C1_Witness ==
  /\ pc = "done"
  /\ \E i, j, k \in 1..Len(fns) :
       /\ Strict(i) /\ Off(i) = -MonthTicks
       /\ Strict(j) /\ Off(j) > -nmonths * MonthTicks /\ Off(j) < (1 - nmonths) * MonthTicks
       /\ ~Strict(k)
  /\ SumSeq(n) >= 20 * MBDen

\* C2: a file whose modification time is not strictly between start and end
\* (equal to start, equal to end, or outside) is not selected, its size is
\* never read and it adds nothing to any bucket.
C2_StrictWindow ==
  Filtered =>
    /\ \A i \in 1..Len(fns) :
         ~(mtimes[i] * TicksPerSec > ts - nmonths * MonthTicks
           /\ mtimes[i] * TicksPerSec < ts)
         => /\ ~ct[i]
            /\ fsize[fns[i]] = 0
            /\ \A k \in 1..Len(Sel) : Sel[k] # fns[i]
    /\ Len(sizes_MB) <= Cardinality({i \in 1..Len(fns) : Strict(i)})
    /\ HistDone /\ (\A i \in 1..Len(fns) : ~Strict(i)) => SumSeq(n) = 0
C2_Witness ==
  /\ pc = "done"
  /\ \E i, j, k \in 1..Len(fns) :
       /\ mtimes[i] * TicksPerSec = start
       /\ mtimes[j] * TicksPerSec = end
       /\ Strict(k)
  /\ Len(sizes_MB) = 1

\* C3: every bucket total equals the sum of the sizes (in MB) of the in-range
\* files whose month offset lies in that bucket; files of 10MB and 20MB at
\* offset -1 and one of 30MB at offset -5 give 30MB in the bucket that holds
\* -1, 30MB in the bucket that holds -5 and 0 elsewhere.
C3_Scenario ==
  /\ Len(fns) = 3
  /\ \E i, j, k \in 1..3 :
       /\ {i, j, k} = {1, 2, 3}
       /\ Off(i) = -MonthTicks /\ fsize[fns[i]] = 10 * 1000000
       /\ Off(j) = -MonthTicks /\ fsize[fns[j]] = 20 * 1000000
       /\ Off(k) = -5 * MonthTicks /\ fsize[fns[k]] = 30 * 1000000
C3_BucketTotals ==
  HistDone =>
    /\ Len(n) = nmonths
    /\ \A b \in 1..nmonths :
         n[b] = (MBDen \div 1000000)
                  * SumBytes({i \in 1..Len(fns) : Strict(i) /\ InBucket(i, b)})
    /\ C3_Scenario =>
         n = [b \in 1..nmonths |->
                IF b = nmonths THEN 30 * MBDen
                ELSE IF b = nmonths - 4 THEN 30 * MBDen ELSE 0]
C3_Witness == pc = "done" /\ C3_Scenario /\ nmonths = 24

\* C4: the window ends at the capture time and is nmonths average months of
\* 30.42 days long.
C4_WindowLength ==
  ts # 0 =>
    /\ end = ts
    /\ end - start = nmonths * AvgMonthSec * TicksPerSec

\* C5: a file that vanishes between the walk and the read of its metadata is
\* skipped: no run ends because of it.
C5_VanishedFileSkipped == error # "FileNotFoundError"

\* C6: when the root does not exist or cannot be read the run fails in the
\* enumeration stage with a filesystem error: no later stage ever runs and
\* no image is written.
C6_MissingRootFailsAtWalk ==
  ~rootOK =>
    /\ pc \in {"walk", "failed"}
    /\ pc = "failed" => error = "FilesystemError"
    /\ mtimes = <<>> /\ ts = 0
    /\ image = "before"

\* C7 (as claimed): a file entry is skipped and counted in badnum exactly when
\* its combined path length is 255 or more.
C7_Threshold255 ==
  [][pc = "walk" /\ todo # <<>> =>
       IF Head(todo)[2] >= 255
       THEN badnum' = badnum + 1 /\ fns' = fns
       ELSE badnum' = badnum /\ fns' = Append(fns, Head(todo)[1])]_vars
\* C7 (amended): a file entry is skipped and counted in badnum exactly when
\* its combined path length is 256 or more; one of 255 or less is retained.
C7_Threshold256 ==
  [][pc = "walk" /\ todo # <<>> =>
       IF Head(todo)[2] >= 256
       THEN badnum' = badnum + 1 /\ fns' = fns
       ELSE badnum' = badnum /\ fns' = Append(fns, Head(todo)[1])]_vars
C7_Witness ==
  /\ pc = "walk"
  /\ fns # <<>>
  /\ badnum > 0
  /\ todo # <<>> /\ Head(todo)[2] = 255

\* C8: at every step of the walk and after it, retained + skipped equals the
\* number of entries visited (all of them once the walk is over), every
\* entry is counted once, and the skip counter never decreases.
C8_CountBalance ==
  /\ [](/\ Len(fns) + badnum = nfiles - Len(todo)
        /\ pc # "walk" => Len(fns) + badnum = nfiles
        /\ \A i, j \in 1..Len(fns) : fns[i] = fns[j] => i = j
        /\ \A i \in 1..Len(fns) : \A k \in 1..Len(todo) : todo[k][1] # fns[i])
  /\ [][badnum' >= badnum /\ Len(fns') >= Len(fns)]_vars
C8_Witness ==
  /\ pc = "done"
  /\ badnum = 1
  /\ Len(fns) = 2
  /\ nfiles = 3

\* C9: on a readable root whose files do not change the run always succeeds,
\* also when no file lies inside the window: the only failures left are a
\* vanished file and an image that cannot be written.
C9_AlwaysCompletes ==
  rootOK /\ pc = "failed" => error \in {"FileNotFoundError", "OSError"}

\* C10: snowball.png changes only in the last step, after the walk, the
\* timestamp read, the filter, the size read and the histogram are complete
\* and no error has occurred; a failed run leaves the file as it was.
C10_ImageWrittenLast ==
  /\ [][image' # image =>
          /\ pc = "save" /\ pc' = "done" /\ error = ""
          /\ todo = <<>>
          /\ Len(mtimes) = Len(fns)
          /\ Len(ct) = Len(fns)
          /\ Len(sizes_MB) = Len(Sel)
          /\ Len(n) = nmonths]_vars
  /\ [](pc = "failed" => image = "before")
  /\ [](image = "new" => pc = "done")
C10_Witness ==
  /\ pc = "failed"
  /\ error = "FileNotFoundError"
  /\ sizes_MB # <<>>
  /\ image = "before"

====
